---- MODULE Spec2Model ----
(***************************************************************************)
(* Model of the USDTSender form component (src/src/components/             *)
(* USDTSender.tsx): the draft (formData), the loading flag (isLoading),    *)
(* the field update handler handleInputChange and the asynchronous submit  *)
(* handler handleSubmit with its validation, its 2000 ms simulated         *)
(* transfer and its try / catch / finally.                                 *)
(*                                                                         *)
(* React state semantics.  formData and isLoading are the COMMITTED state  *)
(* values, the ones a render sees.  A call of a state setter does not      *)
(* assign: it enqueues an update (queue), and React applies the queued     *)
(* updates in order when the synchronously running code returns (Commit).  *)
(* The formData read inside handleSubmit is the constant captured by the   *)
(* render that created the handler (self.draft), not the live state.       *)
(* JavaScript runs each synchronous stretch to completion: while pc is not *)
(* "idle" no other event is dispatched.                                    *)
(***************************************************************************)
EXTENDS Naturals, Sequences, FiniteSets, TLC

VARIABLES
    formData,   \* committed draft: the six string fields (lines 21-28)
    isLoading,  \* committed loading flag (line 29)
    pc,         \* position of the synchronously running handleSubmit code
    queue,      \* state updates enqueued since the last commit
    self,       \* the handleSubmit invocation that is running: its captured
                \* draft and the effects it has performed so far, in order
    pending     \* invocations suspended at the await of line 72, oldest first

vars == <<formData, isLoading, pc, queue, self, pending>>

-----------------------------------------------------------------------------
(* Bounds of the model *)

\* how many distinct non-empty values each text input can be given
MaxValues == 1
\* cap on the number of invocations suspended in their delay
MaxPending == 2

-----------------------------------------------------------------------------
(* The draft *)

Fields == {"chain", "rpcUrl", "apiKey", "privateKey", "toAddress", "amount"}

\* the two SelectItem values the network selector offers
ChainValues == {"EVM", "TRON"}

ValuePool(field) ==
    CASE field = "rpcUrl"     -> <<"https://x", "https://y", "https://z">>
      [] field = "apiKey"     -> <<"tg-key-1", "tg-key-2", "tg-key-3">>
      [] field = "privateKey" -> <<"k", "k2", "k3">>
      [] field = "toAddress"  -> <<"0xabc", "Txyz", "0xdef">>
      [] field = "amount"     -> <<"10", "25", "0.5", "100">>

Take(pool, n) == {pool[i] : i \in 1..(IF n < Len(pool) THEN n ELSE Len(pool))}

\* the values an input event can deliver for a field: a text input can be
\* cleared, the selector can only pick one of its items
FieldValues(field) ==
    IF field = "chain" THEN ChainValues
    ELSE {""} \cup Take(ValuePool(field), MaxValues)

\* useState<FormData>({...}): the draft on mount
InitialFormData ==
    [chain |-> "", rpcUrl |-> "", apiKey |-> "", privateKey |-> "",
     toAddress |-> "", amount |-> ""]

\* the object literal handed to setFormData after the success toast
ResetFormData ==
    [chain |-> "", rpcUrl |-> "", apiKey |-> "", privateKey |-> "",
     toAddress |-> "", amount |-> ""]

\* !s for a string s: only the empty string is falsy
Falsy(s) == s = ""

\* prev => ({ ...prev, [field]: value })
SetFieldDropsRest(prev, field, value) == [InitialFormData EXCEPT ![field] = value]
SetField(prev, field, value) == [prev EXCEPT ![field] = value]

\* which inputs the render mounts: rpcUrl only for EVM, apiKey only for TRON
FieldRendered(field) ==
    CASE field = "rpcUrl" -> formData.chain = "EVM"
      [] field = "apiKey" -> formData.chain = "TRON"
      [] OTHER            -> TRUE

-----------------------------------------------------------------------------
(* Effects of handleSubmit: notifier calls and state-setter calls *)

NoToast == [title |-> "", description |-> <<>>, variant |-> ""]

Effect(op, flag, form, toast) ==
    [op |-> op, flag |-> flag, form |-> form, toast |-> toast]

SetIsLoading(b) == Effect("setIsLoading", b, InitialFormData, NoToast)
SetFormData(d)  == Effect("setFormData", FALSE, d, NoToast)
Toast(t)        == Effect("toast", FALSE, InitialFormData, t)

MissingFieldsToast ==
    [title |-> "Missing fields",
     description |-> <<"Please fill in all required fields">>,
     variant |-> "destructive"]

RpcUrlToast ==
    [title |-> "RPC URL required",
     description |-> <<"Please provide an EVM RPC URL">>,
     variant |-> "destructive"]

ApiKeyToast ==
    [title |-> "API Key required",
     description |-> <<"Please provide a TronGrid API key">>,
     variant |-> "destructive"]

\* `Successfully sent ${formData.amount} USDT on ${formData.chain}`: the
\* template literal as the sequence of its parts (the title's trailing
\* check-mark emoji is left out: the module is ASCII)
SuccessToast(d) ==
    [title |-> "Transaction Sent!",
     description |-> <<"Successfully sent ", d.amount, " USDT on ", d.chain>>,
     variant |-> "default"]

FailedToast ==
    [title |-> "Transaction Failed",
     description |-> <<"Please check your inputs and try again">>,
     variant |-> "destructive"]

-----------------------------------------------------------------------------
(* Validation: the three if-statements of handleSubmit, in source order *)

ValidatorRpcFirst(d) ==
    IF d.chain = "EVM" /\ Falsy(d.rpcUrl) THEN "RPC URL required"
    ELSE IF Falsy(d.chain) \/ Falsy(d.toAddress) \/ Falsy(d.amount)
            \/ Falsy(d.privateKey) THEN "Missing fields"
    ELSE IF d.chain = "TRON" /\ Falsy(d.apiKey) THEN "API Key required"
    ELSE "accept"
ValidatorRpcAlways(d) ==
    IF Falsy(d.chain) \/ Falsy(d.toAddress) \/ Falsy(d.amount)
       \/ Falsy(d.privateKey) THEN "Missing fields"
    ELSE IF Falsy(d.rpcUrl) THEN "RPC URL required"
    ELSE IF d.chain = "TRON" /\ Falsy(d.apiKey) THEN "API Key required"
    ELSE "accept"
Validator(d) ==
    IF Falsy(d.chain) \/ Falsy(d.toAddress) \/ Falsy(d.amount)
       \/ Falsy(d.privateKey) THEN "Missing fields"
    ELSE IF d.chain = "EVM" /\ Falsy(d.rpcUrl) THEN "RPC URL required"
    ELSE IF d.chain = "TRON" /\ Falsy(d.apiKey) THEN "API Key required"
    ELSE "accept"

RejectionToast(outcome) ==
    CASE outcome = "Missing fields"   -> MissingFieldsToast
      [] outcome = "RPC URL required" -> RpcUrlToast
      [] outcome = "API Key required" -> ApiKeyToast

\* what each rejecting branch does after its if-test: toast, setIsLoading(false)
RejectKeepsLoading(outcome) == <<Toast(RejectionToast(outcome))>>
RejectAlsoResets(outcome) ==
    <<Toast(RejectionToast(outcome)), SetFormData(ResetFormData),
      SetIsLoading(FALSE)>>
RejectEffects(outcome) ==
    <<Toast(RejectionToast(outcome)), SetIsLoading(FALSE)>>

\* the formData that the code after the await reads: the captured constant
FormDataSeenLive(captured, live) == live
FormDataSeen(captured, live) == captured

\* the try body after the await: success toast, then the form reset
TryEffectsResetFirst(d) == <<SetFormData(ResetFormData), Toast(SuccessToast(d))>>
TryEffectsKeepKey(d) ==
    <<Toast(SuccessToast(d)),
      SetFormData([ResetFormData EXCEPT !.privateKey = d.privateKey])>>
TryEffects(d) == <<Toast(SuccessToast(d)), SetFormData(ResetFormData)>>

\* the catch block
CatchEffects == <<Toast(FailedToast)>>

\* the finally block
FinallyEffects == <<SetIsLoading(FALSE)>>

\* disabled={isLoading} on the submit button
SubmitNeverDisabled == FALSE
SubmitDisabled == isLoading

-----------------------------------------------------------------------------
(* React's update queue *)

StateUpdates(effects) == SelectSeq(effects, LAMBDA e : e.op # "toast")

Last(s) == s[Len(s)]

\* the value a state has once the queued updates are applied in order
CommittedLoading(q, cur) ==
    LET mine == SelectSeq(q, LAMBDA e : e.op = "setIsLoading")
    IN  IF mine = <<>> THEN cur ELSE Last(mine).flag

CommittedForm(q, cur) ==
    LET mine == SelectSeq(q, LAMBDA e : e.op = "setFormData")
    IN  IF mine = <<>> THEN cur ELSE Last(mine).form

NoInvocation == [draft |-> InitialFormData, log |-> <<>>]

\* the running invocation performs effects: they are logged in call order and
\* the state updates among them are enqueued
Perform(effects) ==
    /\ self' = [self EXCEPT !.log = @ \o effects]
    /\ queue' = queue \o StateUpdates(effects)

-----------------------------------------------------------------------------
(* Initial state and actions *)

Init ==
    /\ formData = InitialFormData
    /\ isLoading = FALSE
    /\ pc = "idle"
    /\ queue = <<>>
    /\ self = NoInvocation
    /\ pending = <<>>

\* handleInputChange(field, value), as an event handler of its own
HandleInputChange(field, value) ==
    /\ pc = "idle"
    /\ formData' = SetField(formData, field, value)
    /\ UNCHANGED <<isLoading, pc, queue, self, pending>>

\* an onChange / onValueChange event of one of the mounted inputs
InputEvent ==
    \E field \in Fields :
        /\ FieldRendered(field)
        /\ \E value \in FieldValues(field) : HandleInputChange(field, value)

\* a submit event reaches handleSubmit: e.preventDefault(); setIsLoading(true)
HandleSubmitEnter ==
    /\ pc = "idle"
    /\ ~SubmitDisabled
    /\ Len(pending) < MaxPending
    /\ self' = [draft |-> formData, log |-> <<SetIsLoading(TRUE)>>]
    /\ queue' = Append(queue, SetIsLoading(TRUE))
    /\ pc' = "validate"
    /\ UNCHANGED <<formData, isLoading, pending>>

\* one of the three validation branches is taken: toast, setIsLoading(false),
\* return
ValidateReject ==
    /\ pc = "validate"
    /\ Validator(self.draft) # "accept"
    /\ Perform(RejectEffects(Validator(self.draft)))
    /\ pc' = "rejected"
    /\ UNCHANGED <<formData, isLoading, pending>>

\* no branch is taken: the try block starts the timer and awaits the promise
ValidateAccept ==
    /\ pc = "validate"
    /\ Validator(self.draft) = "accept"
    /\ pc' = "await"
    /\ UNCHANGED <<formData, isLoading, queue, self, pending>>

\* the synchronous stretch ends (return, suspension at the await, or an
\* exception that leaves handleSubmit) and React applies the queued updates
Commit ==
    /\ pc \in {"rejected", "thrown", "await", "settled"}
    /\ formData' = CommittedForm(queue, formData)
    /\ isLoading' = CommittedLoading(queue, isLoading)
    /\ queue' = <<>>
    /\ pending' = IF pc = "await" THEN Append(pending, self) ELSE pending
    /\ self' = NoInvocation
    /\ pc' = "idle"

\* the 2000 ms timer of the oldest suspended invocation fires and the
\* promise resolves
TimerFire ==
    /\ pc = "idle"
    /\ pending # <<>>
    /\ self' = Head(pending)
    /\ pending' = Tail(pending)
    /\ pc' = "resumed"
    /\ UNCHANGED <<formData, isLoading, queue>>

\* the rest of the try block
TryBody ==
    /\ pc = "resumed"
    /\ Perform(TryEffects(FormDataSeen(self.draft, formData)))
    /\ pc' = "finally"
    /\ UNCHANGED <<formData, isLoading, pending>>

(* A notifier that throws.  toast is a collaborator from outside the       *)
(* component; no input of the form makes it throw.  A call that throws may *)
(* do so before it has shown the notification or after (the log holds the  *)
(* notifications that were shown).  The state setters are React's and do   *)
(* not throw.                                                              *)

\* the effects completed when the toast that opens `effects` throws: none,
\* or the toast alone
CompletedBeforeThrow(effects) == {SubSeq(effects, 1, k) : k \in {0, 1}}

\* the toast of a rejecting branch throws: the branch's setIsLoading(false)
\* is not reached, no try encloses it, and the exception leaves handleSubmit
ValidateThrows ==
    /\ pc = "validate"
    /\ Validator(self.draft) # "accept"
    /\ \E done \in CompletedBeforeThrow(RejectEffects(Validator(self.draft))) :
          Perform(done)
    /\ pc' = "thrown"
    /\ UNCHANGED <<formData, isLoading, pending>>

\* the success toast throws inside the try block: setFormData is not
\* reached and control passes to the catch block
TryThrows ==
    /\ pc = "resumed"
    /\ \E done \in CompletedBeforeThrow(
                     TryEffects(FormDataSeen(self.draft, formData))) :
          Perform(done)
    /\ pc' = "catch"
    /\ UNCHANGED <<formData, isLoading, pending>>

\* the toast of the catch block throws before showing anything: the finally
\* block runs and the exception then leaves handleSubmit
CatchThrows ==
    /\ pc = "catch"
    /\ pc' = "finally"
    /\ UNCHANGED <<formData, isLoading, queue, self, pending>>

CatchBody ==
    /\ pc = "catch"
    /\ Perform(CatchEffects)
    /\ pc' = "finally"
    /\ UNCHANGED <<formData, isLoading, pending>>

Finally ==
    /\ pc = "finally"
    /\ Perform(FinallyEffects)
    /\ pc' = "settled"
    /\ UNCHANGED <<formData, isLoading, pending>>

Next ==
    \/ InputEvent
    \/ HandleSubmitEnter
    \/ ValidateReject
    \/ ValidateAccept
    \/ Commit
    \/ TimerFire
    \/ TryBody
    \/ Finally

Spec == Init /\ [][Next]_vars

\* the code that runs without waiting for the user: a started handler runs
\* to its return or its await, and a started timer fires
HandlerStep ==
    \/ ValidateReject
    \/ ValidateAccept
    \/ Commit
    \/ ValidateThrows
    \/ TryBody
    \/ TryThrows
    \/ CatchBody
    \/ CatchThrows
    \/ Finally

NextFault == Next \/ ValidateThrows \/ TryThrows \/ CatchBody \/ CatchThrows

\* the component with a notifier that may throw, under the scheduling the
\* JavaScript event loop guarantees
SpecFault ==
    Init /\ [][NextFault]_vars /\ WF_vars(HandlerStep) /\ WF_vars(TimerFire)

-----------------------------------------------------------------------------
(* Vocabulary of the properties *)

\* the four fields the first validation rule requires
Required == {"chain", "toAddress", "amount", "privateKey"}

MissingAny(d) == \E f \in Required : d[f] = ""

AllEmpty == [f \in Fields |-> ""]

\* the notifications an invocation has emitted, in order
ToastsOf(log) ==
    LET ts == SelectSeq(log, LAMBDA e : e.op = "toast")
    IN  [i \in 1..Len(ts) |-> ts[i].toast]

Contains(parts, s) == \E i \in 1..Len(parts) : parts[i] = s

\* a handleSubmit invocation exists: running, or suspended in its delay
InFlight == Len(pending) + (IF pc = "idle" THEN 0 ELSE 1)

\* nothing of a submit is left: no handler runs, no delay is pending, the
\* flag is clear
Quiescent == pc = "idle" /\ pending = <<>> /\ ~isLoading

\* the reference validator of the specification: the rules in their fixed
\* order, the first failing rule decides
RuleFails(i, d) ==
    CASE i = 1 -> MissingAny(d)
      [] i = 2 -> d.chain = "EVM" /\ d.rpcUrl = ""
      [] i = 3 -> d.chain = "TRON" /\ d.apiKey = ""

RuleTitle == <<"Missing fields", "RPC URL required", "API Key required">>

RefOutcome(d) ==
    LET failing == {i \in 1..3 : RuleFails(i, d)}
    IN  IF failing = {} THEN "accept"
        ELSE RuleTitle[CHOOSE i \in failing : \A j \in failing : i <= j]

\* the draft d with the four always-required fields filled in
Filled(d) ==
    [d EXCEPT !.toAddress = "0xabc", !.amount = "10", !.privateKey = "k"]

\* a requirement is active for a draft when, the other rules satisfied, the
\* validator's acceptance turns on the field being non-empty
RpcUrlRequired(d) ==
    /\ Validator([Filled(d) EXCEPT !.rpcUrl = "", !.apiKey = "tg-key-1"]) # "accept"
    /\ Validator([Filled(d) EXCEPT !.rpcUrl = "https://x", !.apiKey = "tg-key-1"])
           = "accept"

ApiKeyRequired(d) ==
    /\ Validator([Filled(d) EXCEPT !.apiKey = "", !.rpcUrl = "https://x"]) # "accept"
    /\ Validator([Filled(d) EXCEPT !.apiKey = "tg-key-1", !.rpcUrl = "https://x"])
           = "accept"

\* whether the validator accepts d does not change with the value of field
Independent(d, field) ==
    \A v, w \in FieldValues(field) :
        (Validator([d EXCEPT ![field] = v]) = "accept")
            <=> (Validator([d EXCEPT ![field] = w]) = "accept")

-----------------------------------------------------------------------------
(* C1 *)

C1_Inv ==
    (pc \in {"validate", "rejected"} /\ MissingAny(self.draft)) =>
        /\ ~isLoading
        /\ pc = "rejected" =>
              /\ ToastsOf(self.log) = <<MissingFieldsToast>>
              /\ CommittedLoading(queue, isLoading) = FALSE

\* C1: a submit of a draft with chain, toAddress, amount or privateKey empty
\* is rejected with exactly the destructive "Missing fields" notification,
\* and the loading flag is false in every state from the start of that
\* submit to the state its return leaves behind.
C1_MissingFieldsRejected ==
    /\ [](C1_Inv)
    /\ [][(pc = "rejected" /\ MissingAny(self.draft)) =>
             (pc' = "idle" /\ ~isLoading')]_vars

\* a submit of a draft that lacks a required field has been rejected
C1_Witness ==
    /\ pc = "rejected"
    /\ MissingAny(self.draft)
    /\ self.draft.chain = "EVM"

-----------------------------------------------------------------------------
(* C2 *)

\* C2: at most one submission is ever in flight, and while loading is true
\* no step enters handleSubmit: a submit attempt then changes nothing, emits
\* nothing and starts no second delay.
C2_SingleSubmission ==
    /\ [](InFlight <= 1)
    /\ []((pc = "idle" /\ isLoading) => Len(pending) = 1)
    /\ [][isLoading => (pc' # "validate" /\ Len(pending') <= Len(pending))]_vars

\* a submit is suspended in its delay while the draft on screen would pass
\* validation if it were submitted again
C2_Witness ==
    /\ pc = "idle"
    /\ isLoading
    /\ Len(pending) = 1
    /\ Validator(formData) = "accept"

-----------------------------------------------------------------------------
(* C3 *)

C3_Inv ==
    /\ pc = "await" =>
          (self.log = <<SetIsLoading(TRUE)>> /\ CommittedLoading(queue, isLoading))
    /\ pending # <<>> => isLoading
    /\ pc = "resumed" => (isLoading /\ self.log = <<SetIsLoading(TRUE)>>)
    /\ pc = "settled" =>
          /\ Len(self.log) = 4
          /\ self.log[1] = SetIsLoading(TRUE)
          /\ self.log[2].op = "toast"
          /\ self.log[2].toast.variant = "default"
          /\ Contains(self.log[2].toast.description, self.draft.amount)
          /\ Contains(self.log[2].toast.description, self.draft.chain)
          /\ self.log[3].op = "setFormData"
          /\ self.log[3].form = AllEmpty
          /\ self.log[4] = SetIsLoading(FALSE)

\* C3: a submit of a draft that passes validation sets loading true, after
\* the delay emits a default-severity notification whose text contains the
\* draft's amount and network name, then resets the draft to six empty
\* fields, then sets loading false, in this order.
C3_SuccessPath ==
    /\ [](C3_Inv)
    /\ [][pc = "await" => isLoading']_vars
    /\ [][pc = "settled" => (formData' = AllEmpty /\ ~isLoading')]_vars

\* a submit of a valid TRON draft has run to its end
C3_Witness ==
    /\ pc = "settled"
    /\ self.draft.chain = "TRON"
    /\ self.draft.apiKey # ""
    /\ Len(self.log) = 4

-----------------------------------------------------------------------------
(* C4 *)

\* C4: the validator's outcome equals the first failing rule of the fixed
\* order (missing fields, RPC URL, API key, else accept), and a rejected
\* submit emits exactly one notification, destructive, titled by that rule.
C4_ValidatorOrder ==
    /\ Validator(formData) = RefOutcome(formData)
    /\ pc \in {"validate", "await"} => ToastsOf(self.log) = <<>>
    /\ pc = "await" => RefOutcome(self.draft) = "accept"
    /\ pc = "rejected" =>
          /\ RefOutcome(self.draft) # "accept"
          /\ Len(ToastsOf(self.log)) = 1
          /\ ToastsOf(self.log)[1].title = RefOutcome(self.draft)
          /\ ToastsOf(self.log)[1].variant = "destructive"

\* a draft that fails the first and the second rule has been rejected
C4_Witness ==
    /\ pc = "rejected"
    /\ RuleFails(1, self.draft)
    /\ RuleFails(2, self.draft)

-----------------------------------------------------------------------------
(* C5 *)

\* C5: a submit rejected by validation leaves all six fields as they were
\* before it, and loading is false afterwards.
C5_RejectKeepsDraft ==
    /\ [](pc \in {"validate", "rejected"} => formData = self.draft)
    /\ [][pc = "rejected" =>
             (formData' = self.draft /\ ~isLoading' /\ pc' = "idle")]_vars

\* a non-empty draft has been rejected by the second rule
C5_Witness ==
    /\ pc = "rejected"
    /\ Validator(self.draft) = "RPC URL required"
    /\ formData.amount # ""

-----------------------------------------------------------------------------
(* C6 *)

\* C6: every submit eventually ends with loading false, whatever its
\* outcome (a rejection, the simulated success, an exception), and loading
\* is never true without a submit in progress.
C6_LoadingCleared ==
    /\ [](isLoading => InFlight > 0)
    /\ (InFlight > 0) ~> Quiescent

-----------------------------------------------------------------------------
(* C7 *)

\* C7 as stated: in every reachable state exactly one of the two
\* requirements is active.
C7_ExactlyOneActive ==
    RpcUrlRequired(formData) # ApiKeyRequired(formData)

\* C7, amended: at most one of the two requirements is active, which one is
\* decided by chain alone (rpcUrl for EVM, apiKey for TRON, neither while
\* chain is unset), and acceptance depends on rpcUrl only when chain = EVM
\* and on apiKey only when chain = TRON.
C7_AtMostOneActive ==
    /\ ~(RpcUrlRequired(formData) /\ ApiKeyRequired(formData))
    /\ RpcUrlRequired(formData) <=> formData.chain = "EVM"
    /\ ApiKeyRequired(formData) <=> formData.chain = "TRON"
    /\ formData.chain # "EVM" => Independent(formData, "rpcUrl")
    /\ formData.chain # "TRON" => Independent(formData, "apiKey")
    /\ FieldRendered("rpcUrl") <=> RpcUrlRequired(formData)
    /\ FieldRendered("apiKey") <=> ApiKeyRequired(formData)

\* a TRON draft that still carries an RPC URL typed while EVM was selected
C7_Witness ==
    /\ formData.chain = "TRON"
    /\ formData.rpcUrl # ""
    /\ formData.apiKey = ""
    /\ ~MissingAny(formData)

-----------------------------------------------------------------------------
(* C8 *)

\* C8: handleInputChange(field, value) stores value in exactly the named
\* field, leaves the other five fields and the loading flag unchanged, and
\* validates nothing: every value is accepted for every mounted field
\* whenever no handler is running, also while loading is true.
C8_SetFieldFrame ==
    /\ [][\A field \in Fields : \A value \in FieldValues(field) :
            HandleInputChange(field, value) =>
                /\ formData'[field] = value
                /\ \A other \in Fields \ {field} : formData'[other] = formData[other]
                /\ isLoading' = isLoading
                /\ pending' = pending]_vars
    /\ [](\A field \in Fields : \A value \in FieldValues(field) :
            /\ SetField(formData, field, value)[field] = value
            /\ \A other \in Fields \ {field} :
                  SetField(formData, field, value)[other] = formData[other]
            /\ (pc = "idle" /\ FieldRendered(field)) =>
                  ENABLED HandleInputChange(field, value))

\* a field has been given a value the validator would reject, while loading
C8_Witness ==
    /\ pc = "idle"
    /\ isLoading
    /\ formData.toAddress = ""
    /\ formData.privateKey # ""
    /\ pending[1].draft.toAddress # ""

-----------------------------------------------------------------------------
(* C9 *)

\* C9: the state a completed successful submit leaves behind is the initial
\* state of the component, so a later submit starts from exactly what the
\* first one started from.
C9_ResetIsInitial ==
    /\ [][pc = "settled" => Init']_vars
    /\ [](pc = "settled" => self.log[1] = SetIsLoading(TRUE))

\* a successful submit of an EVM draft is about to complete
C9_Witness ==
    /\ pc = "settled"
    /\ self.draft.chain = "EVM"
    /\ self.draft.rpcUrl # ""
    /\ CommittedForm(queue, formData) = InitialFormData

-----------------------------------------------------------------------------
(* C10 *)

\* C10: edits made during the delay of an in-flight submit are stored, but
\* the success notification reports the amount and chain captured at the
\* submit, and the completed submit leaves all six fields empty.
C10_EditsDuringDelay ==
    /\ [](pc \in {"finally", "settled"} =>
            /\ ToastsOf(self.log)[1].description =
                  <<"Successfully sent ", self.draft.amount, " USDT on ",
                    self.draft.chain>>
            /\ CommittedForm(queue, formData) = AllEmpty)
    /\ [][pc = "settled" => formData' = AllEmpty]_vars
    /\ [](pc = "idle" /\ pending # <<>> =>
            \A value \in FieldValues("amount") :
                ENABLED HandleInputChange("amount", value))

\* the amount and the chain were edited during the delay and the submit ran
\* to its end
C10_Witness ==
    /\ pc = "settled"
    /\ formData.amount # self.draft.amount
    /\ formData.chain \in ChainValues \ {self.draft.chain}

====
